---- MODULE Spec2Model ----
(***************************************************************************)
(* Model of scripts/webhook-server.py: a single-threaded HTTP listener     *)
(* that authenticates a POST webhook with a bearer token and then runs     *)
(* `docker compose pull` followed by `docker compose up -d                 *)
(* --remove-orphans`, mapping the outcome to a 200 / 401 / 500 response.   *)
(*                                                                         *)
(* The environment supplies: the requests (method, Authorization header),  *)
(* whether the compose file exists when deploy() looks, the outcome of     *)
(* each subprocess.run (exit code and stderr, or an OSError), whether the  *)
(* client connection still accepts the response writes, and Ctrl-C.        *)
(***************************************************************************)
EXTENDS Integers, Sequences, FiniteSets, TLC

VARIABLES config, srv, httpd, warnings, reqs, backlog, calls

vars == <<config, srv, httpd, warnings, reqs, backlog, calls>>

----------------------------------------------------------------------------
(* Bounds and input domains *)

\* Number of requests that arrive over the life of the process.
MaxReq == 2

\* WEBHOOK_SECRET values: unset (empty) and set.
Secrets == {"", "abc123"}

\* self.headers.get('Authorization', ''): the header is absent or has a value.
NoHeader == "<absent>"
AuthHeaders == {NoHeader, "Bearer abc123", "Bearer wrong", "Basic abc123"}

\* The requests clients send: a POST with any of the headers, and another
\* method without credentials or with the valid ones.
RequestKinds ==
    {[method |-> "POST", auth |-> h] : h \in AuthHeaders}
        \cup {[method |-> "GET", auth |-> h] : h \in {NoHeader, "Bearer abc123"}}

\* What compose_path.exists() returns.
ExistsResults == {"present", "absent"}

\* What a started docker process reports back: CompletedProcess(returncode,
\* stderr). docker compose writes its progress lines to stderr on success too.
PullOutcomes ==
    {[rc |-> 0, stderr |-> "app Pulled"], [rc |-> 1, stderr |-> "pull access denied"]}
UpOutcomes ==
    {[rc |-> 0, stderr |-> "app Started"], [rc |-> 1, stderr |-> "port is already allocated"]}

\* The client connection while the response is written: every write is
\* accepted, or the client has gone away, in which case the first write to
\* the socket (the flushed status line and headers) still gets through and
\* the write of the body raises, as does every write after it.
WriteFaults == {"none", "body"}

----------------------------------------------------------------------------
(* Configuration, lines 14-18 *)

PORT == 9000

COMPOSE_DIR == "/opt/media-server"

COMPOSE_FILE == "docker-compose.prod.yml"

Config(s) ==
    [port |-> PORT, secret |-> s, composeDir |-> COMPOSE_DIR, composeFile |-> COMPOSE_FILE]

\* Path(COMPOSE_DIR) / COMPOSE_FILE, as str(): a relative file name joined
\* to the directory with one separator.
ComposePath(c) == c.composeDir \o "/" \o c.composeFile

PullArgv(path) == <<"docker", "compose", "-f", path, "pull">>

\* Variant: `up -d` without --remove-orphans.
UpArgvNoOrphans(path) == <<"docker", "compose", "-f", path, "up", "-d">>

UpArgv(path) == <<"docker", "compose", "-f", path, "up", "-d", "--remove-orphans">>

----------------------------------------------------------------------------
(* Per-request handler state *)

NoResult == [kind |-> "none", rc |-> 0, text |-> ""]

Completed(o) == [kind |-> "completed", rc |-> o.rc, text |-> o.stderr]

Raised(msg) == [kind |-> "raised", rc |-> 0, text |-> msg]

NewRequest(m, h) ==
    [method |-> m, auth |-> h, pc |-> "received", phase |-> "RECEIVED",
     visited |-> <<"RECEIVED">>, exists |-> "unchecked", result |-> NoResult,
     sent |-> <<>>, status |-> <<>>, body |-> <<>>]

Ids == 1..Len(reqs)

\* do_POST (or the library's dispatch) is on the stack for request r.
Active(r) == reqs[r].pc \in {"no_method", "auth_check", "rejected", "deploying",
                             "pull_running", "up_running", "map_result", "except"}

\* The handler for r is over: it returned, an exception left it, or Ctrl-C cut it.
Finished(r) == reqs[r].pc \in {"responded", "failed", "killed"}

Enter(rec, p) == [rec EXCEPT !.phase = p, !.visited = Append(@, p)]

----------------------------------------------------------------------------
(* Pure helpers of do_POST *)

\* self.headers.get('Authorization', '')
HeaderGet(h) == IF h = NoHeader THEN "" ELSE h

\* Variant: the token is compared but the scheme is not.
AuthOkAnyScheme(c, h) ==
    c.secret = "" \/ HeaderGet(h) \in {"Bearer " \o c.secret, "Basic " \o c.secret}

\* Variant: the comparison runs without the `if SECRET` guard.
AuthOkNoGuard(c, h) == HeaderGet(h) = "Bearer " \o c.secret

\* lines 31-34: the request passes when no secret is set or the header is
\* exactly 'Bearer ' + SECRET.
AuthOk(c, h) == c.secret = "" \/ HeaderGet(h) = "Bearer " \o c.secret

\* send_response(code); end_headers(); wfile.write(body) against a
\* connection with the given fault ("headers": the flush in end_headers
\* raises, as on a connection that has failed before): the codes passed to
\* send_response, the status lines and bodies that reached the client, and
\* whether a write raised.
Attempt(code, text, fault) ==
    [sent |-> <<code>>,
     status |-> IF fault = "headers" THEN <<>> ELSE <<code>>,
     body |-> IF fault = "none" THEN <<text>> ELSE <<>>,
     raised |-> fault # "none"]

\* Terminal position and phase of a handler after its writes.
Close(rec, a) ==
    LET r1 == [rec EXCEPT !.sent = rec.sent \o a.sent,
                          !.status = rec.status \o a.status,
                          !.body = rec.body \o a.body,
                          !.pc = IF a.raised THEN "failed" ELSE "responded"]
    IN IF r1.status # <<>> /\ rec.phase # "RESPONDED" THEN Enter(r1, "RESPONDED") ELSE r1

\* Variant: the existence check is dropped.
FileMissingNever(e) == FALSE

\* line 68: `if not compose_path.exists()`.
FileMissing(e) == e = "absent"

\* Variant: PULL's exit code is not looked at.
PullFailedIgnored(o) == FALSE

\* line 80: `if pull_result.returncode != 0: return pull_result`.
PullFailed(o) == o.rc # 0

\* Variant: deploy() returns pull_result after running UP.
DeployResultOfPull(pull, up) == pull

\* line 92: deploy() returns the UP stage's CompletedProcess.
DeployResultOf(pull, up) == up

\* Variant: the handler answers 200 whenever deploy() returns.
SucceededAlways(res) == TRUE

\* line 47: `if result.returncode == 0`.
Succeeded(res) == res.rc = 0

\* One subprocess.run(argv, capture_output=True, text=True, cwd=COMPOSE_DIR).
Call(r, stage, argv, st) ==
    [req |-> r, stage |-> stage, argv |-> argv, cwd |-> config.composeDir,
     state |-> st, rc |-> 0, stderr |-> ""]

\* The call request r is blocked in.
RunningCall(r) ==
    CHOOSE i \in 1..Len(calls) : calls[i].req = r /\ calls[i].state = "running"

Return(i, o) == [calls EXCEPT ![i].state = "returned", ![i].rc = o.rc, ![i].stderr = o.stderr]

SpawnError == "[Errno 2] No such file or directory: 'docker'"

----------------------------------------------------------------------------
Init ==
    /\ config \in {Config(s) : s \in Secrets}
    /\ srv = "starting"
    /\ httpd = [sock |-> "unbound", isShutDown |-> FALSE]
    /\ warnings = 0
    /\ reqs = <<>>
    /\ backlog = 0
    /\ calls = <<>>

\* Variant: the warning is logged without the `if not SECRET` test.
StartAlwaysWarns ==
    /\ srv = "starting"
    /\ srv' = "entering"
    /\ httpd' = [sock |-> "listening", isShutDown |-> FALSE]
    /\ warnings' = warnings + 1
    /\ UNCHANGED <<config, reqs, backlog, calls>>

\* main, lines 100-110: the startup warning, the HTTPServer constructor
\* (bind and listen; its is_shut_down event starts unset), and the entry
\* into the try block.
Start ==
    /\ srv = "starting"
    /\ srv' = "entering"
    /\ httpd' = [sock |-> "listening", isShutDown |-> FALSE]
    /\ warnings' = IF config.secret = "" THEN warnings + 1 ELSE warnings
    /\ UNCHANGED <<config, reqs, backlog, calls>>

\* line 111: the call of serve_forever reaches its loop; from here on the
\* loop's finally clause sets the is_shut_down event on any way out.
EnterLoop ==
    /\ srv = "entering"
    /\ srv' = "serving"
    /\ httpd' = [httpd EXCEPT !.isShutDown = FALSE]
    /\ UNCHANGED <<config, warnings, reqs, backlog, calls>>

\* A client connects; the connection waits in the listen queue of the
\* socket. Nothing of the request is read before the loop accepts it.
Arrive ==
    /\ httpd.sock = "listening"
    /\ Len(reqs) + backlog < MaxReq
    /\ backlog' = backlog + 1
    /\ UNCHANGED <<config, srv, httpd, warnings, reqs, calls>>

\* Variant: a thread per connection (ThreadingHTTPServer), no lock.
LoopIdleThreaded == TRUE

\* Variant: deploy() takes a lock and does not release it when it raises, so
\* the loop stays blocked behind it.
LoopIdleLockLeak ==
    /\ \A r \in Ids : ~Active(r)
    /\ \A r \in Ids : reqs[r].result.kind # "raised"

\* The serve_forever loop is free to take the next connection.
LoopIdle == \A r \in Ids : ~Active(r)

\* Variant: the class aliases the other methods to the handler
\* (do_GET = do_PUT = do_DELETE = do_POST).
AcceptAnyMethod ==
    /\ srv = "serving"
    /\ \A r \in Ids : ~Active(r)
    /\ backlog > 0
    /\ \E k \in RequestKinds :
          reqs' = Append(reqs, Enter([NewRequest(k.method, k.auth)
                                          EXCEPT !.pc = "auth_check"], "AUTH_CHECK"))
    /\ backlog' = backlog - 1
    /\ UNCHANGED <<config, srv, httpd, warnings, calls>>

\* serve_forever (line 111) takes the next connection, reads the request
\* line and headers and dispatches on the method: do_POST is the only
\* handler the class defines (lines 28-29).
Accept ==
    /\ srv = "serving"
    /\ LoopIdle
    /\ backlog > 0
    /\ \E k \in RequestKinds :
          LET rec == NewRequest(k.method, k.auth) IN
          reqs' = Append(reqs,
                      IF k.method = "POST"
                      THEN Enter([rec EXCEPT !.pc = "auth_check"], "AUTH_CHECK")
                      ELSE [rec EXCEPT !.pc = "no_method"])
    /\ backlog' = backlog - 1
    /\ UNCHANGED <<config, srv, httpd, warnings, calls>>

\* A method the class has no do_<METHOD> for: BaseHTTPRequestHandler answers
\* 501 itself and never calls into do_POST.
NoMethod(r) ==
    /\ reqs[r].pc = "no_method"
    /\ \E f \in WriteFaults :
          reqs' = [reqs EXCEPT ![r] = Close(@, Attempt(501, "Unsupported method", f))]
    /\ UNCHANGED <<config, srv, httpd, warnings, backlog, calls>>

\* do_POST, lines 31-34 and 41: the bearer-token check.
AuthCheck(r) ==
    /\ reqs[r].pc = "auth_check"
    /\ reqs' = [reqs EXCEPT ![r] =
                  IF AuthOk(config, @.auth)
                  THEN Enter([@ EXCEPT !.pc = "deploying"], "DEPLOYING")
                  ELSE Enter([@ EXCEPT !.pc = "rejected"], "REJECTED")]
    /\ UNCHANGED <<config, srv, httpd, warnings, backlog, calls>>

\* Variant: the `return` of line 39 is missing, so the rejected request
\* falls through to the deploy.
RejectFallThrough(r) ==
    /\ reqs[r].pc = "rejected"
    /\ \E f \in WriteFaults :
          LET a == Attempt(401, "Unauthorized", f) IN
          reqs' = [reqs EXCEPT ![r] =
                      IF a.raised THEN Close(@, a)
                      ELSE Enter([Close(@, a) EXCEPT !.pc = "deploying"], "DEPLOYING")]
    /\ UNCHANGED <<config, srv, httpd, warnings, backlog, calls>>

\* do_POST, lines 35-39: 401, body, return. The writes are outside the try:
\* a write that raises leaves do_POST.
Reject(r) ==
    /\ reqs[r].pc = "rejected"
    /\ \E f \in WriteFaults :
          reqs' = [reqs EXCEPT ![r] = Close(@, Attempt(401, "Unauthorized", f))]
    /\ UNCHANGED <<config, srv, httpd, warnings, backlog, calls>>

\* deploy, lines 66-78: the existence check, then subprocess.run of PULL,
\* which either starts the process and blocks or raises at once.
DeployBegin(r) ==
    /\ reqs[r].pc = "deploying"
    /\ \E e \in ExistsResults :
          IF FileMissing(e)
          THEN /\ reqs' = [reqs EXCEPT ![r].exists = e, ![r].pc = "except",
                              ![r].result = Raised("Compose file not found: "
                                                      \o ComposePath(config))]
               /\ calls' = calls
          ELSE \E started \in BOOLEAN :
                  IF started
                  THEN /\ calls' = Append(calls, Call(r, "PULL",
                                             PullArgv(ComposePath(config)), "running"))
                       /\ reqs' = [reqs EXCEPT ![r].exists = e, ![r].pc = "pull_running"]
                  ELSE /\ calls' = Append(calls, Call(r, "PULL",
                                             PullArgv(ComposePath(config)), "raised"))
                       /\ reqs' = [reqs EXCEPT ![r].exists = e, ![r].pc = "except",
                                                ![r].result = Raised(SpawnError)]
    /\ UNCHANGED <<config, srv, httpd, warnings, backlog>>

\* Variant: a failed PULL is run once more before giving up.
PullReturnRetry(r) ==
    /\ reqs[r].pc = "pull_running"
    /\ \E o \in PullOutcomes :
          LET done == Return(RunningCall(r), o)
              tries == Len(SelectSeq(calls, LAMBDA c : c.req = r /\ c.stage = "PULL"))
          IN
          IF o.rc # 0 /\ tries < 2
          THEN /\ calls' = Append(done, Call(r, "PULL",
                                    PullArgv(ComposePath(config)), "running"))
               /\ reqs' = reqs
          ELSE IF o.rc # 0
          THEN /\ calls' = done
               /\ reqs' = [reqs EXCEPT ![r].pc = "map_result", ![r].result = Completed(o)]
          ELSE /\ calls' = Append(done, Call(r, "UP",
                                    UpArgv(ComposePath(config)), "running"))
               /\ reqs' = [reqs EXCEPT ![r].pc = "up_running"]
    /\ UNCHANGED <<config, srv, httpd, warnings, backlog>>

\* deploy, lines 73-90: PULL returns; on a non-zero exit deploy returns its
\* result, otherwise subprocess.run of UP starts (or raises).
PullReturn(r) ==
    /\ reqs[r].pc = "pull_running"
    /\ \E o \in PullOutcomes :
          LET done == Return(RunningCall(r), o) IN
          IF PullFailed(o)
          THEN /\ calls' = done
               /\ reqs' = [reqs EXCEPT ![r].pc = "map_result", ![r].result = Completed(o)]
          ELSE \E started \in BOOLEAN :
                  IF started
                  THEN /\ calls' = Append(done, Call(r, "UP",
                                            UpArgv(ComposePath(config)), "running"))
                       /\ reqs' = [reqs EXCEPT ![r].pc = "up_running"]
                  ELSE /\ calls' = Append(done, Call(r, "UP",
                                            UpArgv(ComposePath(config)), "raised"))
                       /\ reqs' = [reqs EXCEPT ![r].pc = "except",
                                                ![r].result = Raised(SpawnError)]
    /\ UNCHANGED <<config, srv, httpd, warnings, backlog>>

\* Variant: subprocess.run is given timeout=300; a command that runs longer
\* is killed and TimeoutExpired is raised into do_POST.
UpReturnTimeout(r) ==
    /\ reqs[r].pc = "up_running"
    /\ \/ \E o \in UpOutcomes :
             /\ calls' = Return(RunningCall(r), o)
             /\ reqs' = [reqs EXCEPT ![r].pc = "map_result", ![r].result = Completed(o)]
       \/ /\ calls' = [calls EXCEPT ![RunningCall(r)].state = "killed"]
          /\ reqs' = [reqs EXCEPT ![r].pc = "except",
                                   ![r].result = Raised("Command timed out after 300 seconds")]
    /\ UNCHANGED <<config, srv, httpd, warnings, backlog>>

\* deploy, lines 85-92: UP returns and deploy returns up_result.
UpReturn(r) ==
    /\ reqs[r].pc = "up_running"
    /\ \E o \in UpOutcomes :
          LET i == RunningCall(r)
              p == CHOOSE j \in 1..Len(calls) : calls[j].req = r /\ calls[j].stage = "PULL"
              pull == [rc |-> calls[p].rc, stderr |-> calls[p].stderr]
          IN /\ calls' = Return(i, o)
             /\ reqs' = [reqs EXCEPT ![r].pc = "map_result",
                                      ![r].result = Completed(DeployResultOf(pull, o))]
    /\ UNCHANGED <<config, srv, httpd, warnings, backlog>>

\* Variant: after a failed deploy the handler switches the module-level
\* COMPOSE_FILE to the development file for the requests that follow.
MapResultFallback(r) ==
    /\ reqs[r].pc = "map_result"
    /\ \E f \in WriteFaults :
          LET res == reqs[r].result
              a == IF Succeeded(res)
                   THEN Attempt(200, "Deployment successful", f)
                   ELSE Attempt(500, "Deployment failed: " \o res.text, f)
          IN reqs' = [reqs EXCEPT ![r] =
                        IF a.raised
                        THEN Close(Close(@, a),
                                   Attempt(500, "Error: [Errno 32] Broken pipe", "headers"))
                        ELSE Close(@, a)]
    /\ config' = IF Succeeded(reqs[r].result) THEN config
                 ELSE [config EXCEPT !.composeFile = "docker-compose.yml"]
    /\ UNCHANGED <<srv, httpd, warnings, backlog, calls>>

\* do_POST, lines 47-56, with the except clause of lines 58-62 for a write
\* that raises inside the try: it calls send_response(500) and its own
\* flush raises on the same broken connection, which leaves do_POST.
MapResult(r) ==
    /\ reqs[r].pc = "map_result"
    /\ \E f \in WriteFaults :
          LET res == reqs[r].result
              a == IF Succeeded(res)
                   THEN Attempt(200, "Deployment successful", f)
                   ELSE Attempt(500, "Deployment failed: " \o res.text, f)
          IN reqs' = [reqs EXCEPT ![r] =
                        IF a.raised
                        THEN Close(Close(@, a),
                                   Attempt(500, "Error: [Errno 32] Broken pipe", "headers"))
                        ELSE Close(@, a)]
    /\ UNCHANGED <<config, srv, httpd, warnings, backlog, calls>>

\* Variant: the except clause ends with sys.exit(1); SystemExit is not an
\* Exception and takes the serve_forever loop down with it.
ExceptExit(r) ==
    /\ reqs[r].pc = "except"
    /\ \E f \in WriteFaults :
          reqs' = [reqs EXCEPT ![r] =
                      Close(@, Attempt(500, "Error: " \o @.result.text, f))]
    /\ srv' = "crashed"
    /\ UNCHANGED <<config, httpd, warnings, backlog, calls>>

\* Variant: the clause is `except subprocess.CalledProcessError`, which an
\* OSError from starting the process passes.
ExceptNarrow(r) ==
    /\ reqs[r].pc = "except"
    /\ \E f \in WriteFaults :
          reqs' = [reqs EXCEPT ![r] =
                      IF @.result.text = SpawnError
                      THEN [@ EXCEPT !.pc = "failed"]
                      ELSE Close(@, Attempt(500, "Error: " \o @.result.text, f))]
    /\ UNCHANGED <<config, srv, httpd, warnings, backlog, calls>>

\* do_POST, lines 58-62: an exception out of deploy().
Except(r) ==
    /\ reqs[r].pc = "except"
    /\ \E f \in WriteFaults :
          reqs' = [reqs EXCEPT ![r] =
                      Close(@, Attempt(500, "Error: " \o @.result.text, f))]
    /\ UNCHANGED <<config, srv, httpd, warnings, backlog, calls>>

\* Ctrl-C inside the try block of lines 110-111: KeyboardInterrupt is not
\* an Exception, so it passes the except clause of do_POST, leaves
\* serve_forever and is caught at line 112. A handler in progress is cut
\* short and the docker process it waits for is killed. Out of the running
\* loop the event is set on the way; a KeyboardInterrupt raised in the call
\* before the loop was reached leaves it unset.
Interrupt ==
    /\ srv \in {"entering", "serving"}
    /\ srv' = "interrupted"
    /\ httpd' = [httpd EXCEPT !.isShutDown = (srv = "serving")]
    /\ reqs' = [r \in Ids |-> IF Active(r) THEN [reqs[r] EXCEPT !.pc = "killed"]
                                             ELSE reqs[r]]
    /\ calls' = [i \in 1..Len(calls) |->
                    IF calls[i].state = "running"
                    THEN [calls[i] EXCEPT !.state = "killed"] ELSE calls[i]]
    /\ UNCHANGED <<config, warnings, backlog>>

\* line 114: httpd.shutdown() waits for the is_shut_down event; then main
\* returns and the process ends, which closes the listening socket (the
\* program itself never calls server_close).
Shutdown ==
    /\ srv = "interrupted"
    /\ httpd.isShutDown
    /\ srv' = "terminated"
    /\ httpd' = [httpd EXCEPT !.sock = "closed"]
    /\ UNCHANGED <<config, warnings, reqs, backlog, calls>>

Next ==
    \/ Start
    \/ EnterLoop
    \/ Arrive
    \/ Accept
    \/ \E r \in Ids : NoMethod(r)
    \/ \E r \in Ids : AuthCheck(r)
    \/ \E r \in Ids : Reject(r)
    \/ \E r \in Ids : DeployBegin(r)
    \/ \E r \in Ids : PullReturn(r)
    \/ \E r \in Ids : UpReturn(r)
    \/ \E r \in Ids : MapResult(r)
    \/ \E r \in Ids : Except(r)
    \/ Interrupt
    \/ Shutdown

\* A step of the handler's own straight-line code.
HandlerStep ==
    \E r \in Ids :
        NoMethod(r) \/ AuthCheck(r) \/ Reject(r) \/ DeployBegin(r) \/ MapResult(r) \/ Except(r)

\* A started docker process ends and subprocess.run returns.
CommandReturns == \E r \in Ids : PullReturn(r) \/ UpReturn(r)

Spec == Init /\ [][Next]_vars

\* The single thread keeps running its code: startup, the serving loop, the
\* handler and the shutdown step are never suspended for ever, and every
\* started external command returns. Arrivals and Ctrl-C are up to the
\* environment.
ThreadStep == Start \/ EnterLoop \/ Accept \/ HandlerStep \/ CommandReturns \/ Shutdown

FairSpec == Spec /\ WF_vars(ThreadStep)

----------------------------------------------------------------------------
(* Vocabulary of the properties *)

\* The external invocations made for request r, in the order they started.
CallsOf(r) == SelectSeq(calls, LAMBDA c : c.req = r)

StageCalls(r, stage) == SelectSeq(calls, LAMBDA c : c.req = r /\ c.stage = stage)

IsPost(r) == reqs[r].method = "POST"

\* do_POST returned normally: every write of the response was accepted.
Returned(r) == reqs[r].pc = "responded"

\* The Authorization value differs from "Bearer " followed by the secret.
BadCredential(r) ==
    /\ config.secret # ""
    /\ (IF reqs[r].auth = NoHeader THEN "" ELSE reqs[r].auth) # "Bearer " \o config.secret

\* What the client was sent is nothing yet, or the one status `code`.
OnlyStatus(r, code) == reqs[r].status \in {<<>>, <<code>>}

Answered(r, code, text) == reqs[r].status = <<code>> /\ reqs[r].body = <<text>>

----------------------------------------------------------------------------
\* C1: with a non-empty secret, a POST whose Authorization value is not
\* exactly "Bearer " + secret never invokes PULL or UP, is sent no status
\* other than 401, and is answered 401 "Unauthorized" when do_POST returns.
C1_BadCredentialIs401 ==
    \A r \in Ids :
        IsPost(r) /\ BadCredential(r) =>
            /\ CallsOf(r) = <<>>
            /\ OnlyStatus(r, 401)
            /\ Returned(r) => Answered(r, 401, "Unauthorized")

C1_Witness ==
    \E r \in Ids :
        /\ IsPost(r) /\ config.secret = "abc123" /\ reqs[r].auth = "Basic abc123"
        /\ Returned(r) /\ Answered(r, 401, "Unauthorized")

\* C2: with an empty secret no POST is ever answered 401, whatever its
\* Authorization header, and every POST that leaves the auth check enters
\* the deploy.
C2_EmptySecretAlwaysPasses ==
    config.secret = "" =>
        \A r \in Ids :
            IsPost(r) =>
                /\ \A i \in 1..Len(reqs[r].sent) : reqs[r].sent[i] # 401
                /\ reqs[r].pc # "rejected"
                /\ reqs[r].phase \notin {"RECEIVED", "AUTH_CHECK"} =>
                      /\ reqs[r].visited[3] = "DEPLOYING"
                      /\ Finished(r) /\ reqs[r].pc # "killed" => reqs[r].exists # "unchecked"

C2_Witness ==
    /\ config.secret = ""
    /\ \E r \in Ids :
          /\ IsPost(r) /\ reqs[r].auth = NoHeader
          /\ Returned(r) /\ Answered(r, 200, "Deployment successful")
    /\ \E r \in Ids :
          /\ IsPost(r) /\ reqs[r].auth = "Bearer wrong" /\ Len(CallsOf(r)) = 2

\* C3: an authenticated POST that finds no compose file invokes no external
\* command, is sent no status other than 500, and is answered 500 with
\* "Error: Compose file not found: <path>" when do_POST returns.
C3_MissingComposeFileIs500 ==
    \A r \in Ids :
        IsPost(r) /\ reqs[r].exists = "absent" =>
            /\ CallsOf(r) = <<>>
            /\ OnlyStatus(r, 500)
            /\ Returned(r) =>
                  Answered(r, 500,
                     "Error: Compose file not found: /opt/media-server/docker-compose.prod.yml")

C3_Witness ==
    \E r \in Ids :
        /\ IsPost(r) /\ reqs[r].exists = "absent" /\ ~BadCredential(r)
        /\ Returned(r) /\ reqs[r].status = <<500>>

\* C4: when the PULL of a request exits non-zero, UP is never invoked for
\* that request, no status other than 500 is sent, and the answer is 500
\* "Deployment failed: " followed by PULL's stderr when do_POST returns.
C4_PullFailureStopsDeploy ==
    \A r \in Ids :
        \A i \in 1..Len(calls) :
            /\ calls[i].req = r /\ calls[i].stage = "PULL"
            /\ calls[i].state = "returned" /\ calls[i].rc # 0
            => /\ StageCalls(r, "UP") = <<>>
               /\ OnlyStatus(r, 500)
               /\ Returned(r) =>
                     Answered(r, 500, "Deployment failed: " \o calls[i].stderr)

C4_Witness ==
    \E r \in Ids :
        /\ Returned(r) /\ Answered(r, 500, "Deployment failed: pull access denied")
        /\ Len(CallsOf(r)) = 1

\* C5: when the compose file exists and PULL and UP both exit 0, exactly two
\* invocations were made for the request, `pull` then `up -d
\* --remove-orphans`, on the same compose file path and with working
\* directory COMPOSE_DIR, no status other than 200 is sent, and the answer
\* is 200 "Deployment successful" when do_POST returns.
C5_SuccessfulDeployIs200 ==
    \A r \in Ids :
        LET cs == CallsOf(r) IN
        /\ reqs[r].exists = "present"
        /\ \E i \in 1..Len(cs) : cs[i].stage = "UP" /\ cs[i].state = "returned" /\ cs[i].rc = 0
        /\ \E i \in 1..Len(cs) : cs[i].stage = "PULL" /\ cs[i].state = "returned" /\ cs[i].rc = 0
        => /\ Len(cs) = 2
           /\ cs[1].argv = <<"docker", "compose", "-f", cs[1].argv[4], "pull">>
           /\ cs[2].argv = <<"docker", "compose", "-f", cs[1].argv[4],
                             "up", "-d", "--remove-orphans">>
           /\ cs[1].argv[4] = config.composeDir \o "/" \o config.composeFile
           /\ cs[1].cwd = config.composeDir /\ cs[2].cwd = config.composeDir
           /\ OnlyStatus(r, 200)
           /\ Returned(r) => Answered(r, 200, "Deployment successful")

C5_Witness ==
    \E r \in Ids :
        /\ config.secret = "abc123" /\ reqs[r].auth = "Bearer abc123"
        /\ Returned(r) /\ Answered(r, 200, "Deployment successful")
        /\ Len(CallsOf(r)) = 2

\* C6: when PULL exits 0 and UP exits non-zero, PULL was invoked exactly once
\* for the request, no status other than 500 is sent, and the answer is 500
\* "Deployment failed: " followed by UP's stderr when do_POST returns.
C6_UpFailureIs500 ==
    \A r \in Ids :
        \A i \in 1..Len(calls) :
            /\ calls[i].req = r /\ calls[i].stage = "UP"
            /\ calls[i].state = "returned" /\ calls[i].rc # 0
            => /\ Len(StageCalls(r, "PULL")) = 1
               /\ StageCalls(r, "PULL")[1].rc = 0
               /\ OnlyStatus(r, 500)
               /\ Returned(r) =>
                     Answered(r, 500, "Deployment failed: " \o calls[i].stderr)

C6_Witness ==
    \E r \in Ids :
        /\ Returned(r) /\ Answered(r, 500, "Deployment failed: port is already allocated")
        /\ Len(CallsOf(r)) = 2
        /\ CallsOf(r)[1].stderr = "app Pulled"

\* C7: at most one handler is in progress at a time, only the most recently
\* started command can still be running, and the commands of one request
\* are never interleaved with those of another.
C7_OneDeployAtATime ==
    /\ Cardinality({r \in Ids : Active(r)}) <= 1
    /\ \A i \in 1..Len(calls) : calls[i].state = "running" => i = Len(calls)
    /\ \A i, j, k \in 1..Len(calls) :
          i < j /\ j < k /\ calls[i].req = calls[k].req => calls[j].req = calls[i].req

C7_Witness ==
    \E i, j \in 1..Len(calls) :
        /\ i < j /\ calls[i].req # calls[j].req
        /\ calls[i].state = "returned" /\ calls[j].state = "running"

\* The response a request gets, as a function of that request alone: its
\* method and header, what deploy() found on disk, and how its own commands
\* ended.
ResponseFor(r) ==
    LET cs == CallsOf(r)
        last == cs[Len(cs)]
    IN  IF ~IsPost(r) THEN <<501, "Unsupported method">>
        ELSE IF BadCredential(r) THEN <<401, "Unauthorized">>
        ELSE IF reqs[r].exists = "absent"
             THEN <<500, "Error: Compose file not found: " \o ComposePath(config)>>
        ELSE IF last.state = "raised" THEN <<500, "Error: " \o SpawnError>>
        ELSE IF last.stage = "UP" /\ last.rc = 0 THEN <<200, "Deployment successful">>
        ELSE <<500, "Deployment failed: " \o last.stderr>>

\* The handler of r ends in this step, and not with a 200.
EndsInFailure(r) ==
    /\ Active(r)
    /\ reqs'[r].pc \in {"responded", "failed"}
    /\ reqs'[r].status # <<200>>

\* C8: a step in which a request ends in failure leaves the listener
\* serving and the waiting requests queued, and whatever came before it,
\* every request whose handler returns got the response determined by its
\* own header, compose-file check and command outcomes.
C8_FailureDoesNotStopListener ==
    /\ [](\A r \in Ids :
            Returned(r) => <<reqs[r].status[1], reqs[r].body[1]>> = ResponseFor(r)
                           /\ Len(reqs[r].status) = 1 /\ Len(reqs[r].body) = 1)
    /\ [][\A r \in Ids :
            EndsInFailure(r) => srv' = "serving" /\ backlog' = backlog /\ LoopIdle']_vars

C8_Witness ==
    \E r1, r2 \in Ids :
        /\ r1 < r2
        /\ reqs[r1].pc = "failed"
        /\ Returned(r2) /\ Answered(r2, 200, "Deployment successful")

\* C9: no request ever has more than one PULL or more than one UP
\* invocation, whatever the exit codes or exceptions, and every invocation
\* belongs to a POST request that passed the auth check.
C9_NoRetry ==
    /\ \A r \in Ids : Len(StageCalls(r, "PULL")) <= 1 /\ Len(StageCalls(r, "UP")) <= 1
    /\ \A i \in 1..Len(calls) :
          /\ calls[i].req \in Ids
          /\ IsPost(calls[i].req) /\ ~BadCredential(calls[i].req)
    /\ Len(calls) <= 2 * Len(reqs)

C9_Witness ==
    \E r \in Ids :
        /\ reqs[r].pc \in {"responded", "failed"}
        /\ Len(StageCalls(r, "PULL")) = 1 /\ StageCalls(r, "PULL")[1].rc # 0
        /\ LoopIdle /\ backlog = 0 /\ Len(reqs) = MaxReq

\* The prefixes of the two linear paths of a request.
LinearPaths ==
    {<<"RECEIVED">>, <<"RECEIVED", "AUTH_CHECK">>,
     <<"RECEIVED", "AUTH_CHECK", "REJECTED">>,
     <<"RECEIVED", "AUTH_CHECK", "DEPLOYING">>,
     <<"RECEIVED", "AUTH_CHECK", "REJECTED", "RESPONDED">>,
     <<"RECEIVED", "AUTH_CHECK", "DEPLOYING", "RESPONDED">>}

\* C10: the states a POST request has passed through form a prefix of
\* RECEIVED, AUTH_CHECK, REJECTED or DEPLOYING, RESPONDED; it is in DEPLOYING
\* only with a passed auth check; and anything is written to the client only
\* when none of its commands is running and, if it deployed, deploy() is over.
C10_LinearRequestStates ==
    \A r \in Ids :
        IsPost(r) =>
            /\ reqs[r].visited \in LinearPaths
            /\ reqs[r].phase = reqs[r].visited[Len(reqs[r].visited)]
            /\ (\E i \in 1..Len(reqs[r].visited) : reqs[r].visited[i] = "DEPLOYING")
                  => ~BadCredential(r)
            /\ (\E i \in 1..Len(reqs[r].visited) : reqs[r].visited[i] = "REJECTED")
                  => BadCredential(r) /\ CallsOf(r) = <<>>
            /\ reqs[r].sent # <<>> =>
                  /\ \A i \in 1..Len(calls) : calls[i].req = r => calls[i].state # "running"
                  /\ reqs[r].pc \in {"responded", "failed"}
                  /\ ~BadCredential(r) => reqs[r].result.kind \in {"completed", "raised"}
            /\ reqs[r].phase = "RESPONDED" <=> reqs[r].status # <<>>

C10_Witness ==
    /\ \E r \in Ids : IsPost(r)
          /\ reqs[r].visited = <<"RECEIVED", "AUTH_CHECK", "REJECTED", "RESPONDED">>
    /\ \E r \in Ids : IsPost(r)
          /\ reqs[r].visited = <<"RECEIVED", "AUTH_CHECK", "DEPLOYING", "RESPONDED">>
          /\ Len(CallsOf(r)) = 2

\* C11: when subprocess.run raises instead of returning an exit code, that
\* invocation is the last one of its request, the except clause answers with
\* the one status 500 and, when do_POST returns, the body "Error: <message>";
\* the only way out of do_POST other than a return is the client's
\* connection failing after that 500 status was written.
C11_DeployExceptionIs500 ==
    \A i \in 1..Len(calls) :
        calls[i].state = "raised" =>
            LET r == calls[i].req IN
            /\ \A j \in 1..Len(calls) : j > i => calls[j].req # r
            /\ OnlyStatus(r, 500)
            /\ Returned(r) =>
                  Answered(r, 500, "Error: [Errno 2] No such file or directory: 'docker'")
            /\ reqs[r].pc \in {"responded", "failed"} => reqs[r].sent = <<500>>
            /\ reqs[r].pc = "failed" => reqs[r].status = <<500>> /\ reqs[r].body = <<>>

C11_Witness ==
    /\ \E r \in Ids :
          /\ Len(CallsOf(r)) = 1 /\ CallsOf(r)[1].stage = "PULL"
          /\ CallsOf(r)[1].state = "raised" /\ Returned(r)
    /\ \E r \in Ids :
          /\ Len(CallsOf(r)) = 2 /\ CallsOf(r)[2].stage = "UP"
          /\ CallsOf(r)[2].state = "raised" /\ Returned(r)

\* C12: a request whose method is not POST never reaches do_POST: no PULL or
\* UP is invoked for it, no 200 is produced for it, and the only status it is
\* sent is the 501 of the base handler, with or without valid credentials.
C12_OtherMethodsRejected ==
    \A r \in Ids :
        ~IsPost(r) =>
            /\ CallsOf(r) = <<>>
            /\ \A i \in 1..Len(reqs[r].sent) : reqs[r].sent[i] # 200
            /\ reqs[r].pc \in {"no_method", "responded", "failed", "killed"}
            /\ reqs[r].exists = "unchecked"
            /\ OnlyStatus(r, 501)

C12_Witness ==
    /\ config.secret = "abc123"
    /\ \E r \in Ids :
          /\ reqs[r].method = "GET" /\ reqs[r].auth = "Bearer abc123"
          /\ Returned(r) /\ reqs[r].status = <<501>>

\* C13: once the interrupt has been caught the shutdown step can complete
\* (httpd.shutdown() is not left waiting), no handler is in progress from
\* then on, and the terminated process has its listening socket closed.
C13_OrderlyShutdown ==
    /\ srv = "interrupted" => ENABLED Shutdown
    /\ srv \in {"interrupted", "terminated"} => \A r \in Ids : ~Active(r)
    /\ srv = "terminated" => httpd.sock = "closed"

\* C14: the number of "webhook is unprotected" warnings logged so far is 1
\* once startup has run with an empty secret and 0 in every other state, and
\* no connection is queued or request handled before startup has run.
C14_StartupWarningOnce ==
    /\ warnings = IF config.secret = "" /\ srv # "starting" THEN 1 ELSE 0
    /\ srv = "starting" => reqs = <<>> /\ backlog = 0

C14_Witness ==
    /\ config.secret = "" /\ warnings = 1
    /\ Len(reqs) = MaxReq /\ \A r \in Ids : Returned(r)

\* The k-th connection has arrived.
Arrived(k) == Len(reqs) + backlog >= k

\* The handler of the k-th connection has ended: by a return, a POST having
\* been sent one of 200, 401, 500, or by an exception from a write to the
\* client.
Handled(k) ==
    /\ Len(reqs) >= k
    /\ \/ reqs[k].pc = "failed"
       \/ /\ Returned(k)
          /\ IsPost(k) => reqs[k].status \in {<<200>>, <<401>>, <<500>>}

Waiting == \E k \in 1..MaxReq : Arrived(k) /\ ~Handled(k)

C16_HungCommandBlocks ==
    /\ [](\A i \in 1..Len(calls) :
            calls[i].state \in {"running", "killed"} =>
                LET r == calls[i].req IN
                /\ reqs[r].sent = <<>> /\ reqs[r].status = <<>> /\ reqs[r].body = <<>>
                /\ i = Len(calls)
                /\ r = Len(reqs)
                /\ calls[i].state = "running" => ~ENABLED Accept)
    /\ [][\A i \in 1..Len(calls) :
            calls[i].state = "running" /\ calls'[i].state = "running"
                => reqs' = reqs /\ calls' = calls]_vars

C16_Witness ==
    /\ backlog > 0
    /\ Len(reqs) = 1
    /\ \E i \in 1..Len(calls) : calls[i].stage = "UP" /\ calls[i].state = "running"

\* C17: every POST request whose handler has ended was given exactly one
\* status, from {200, 401, 500}: do_POST called send_response once.
C17_ExactlyOneStatus ==
    \A r \in Ids :
        IsPost(r) /\ reqs[r].pc \in {"responded", "failed"} =>
            /\ Len(reqs[r].sent) = 1
            /\ reqs[r].sent[1] \in {200, 401, 500}

\* C18: a 200 is sent only to a POST request that passed the credential
\* check, found the compose file, and ran PULL to exit code 0 and then UP to
\* exit code 0; every UP invocation directly follows a PULL invocation of
\* the same request that exited 0.
C18_SuccessNeedsBothStages ==
    /\ \A r \in Ids :
          (\E n \in 1..Len(reqs[r].sent) : reqs[r].sent[n] = 200) =>
              LET cs == CallsOf(r) IN
              /\ IsPost(r) /\ ~BadCredential(r)
              /\ reqs[r].exists = "present"
              /\ Len(cs) = 2
              /\ cs[1].stage = "PULL" /\ cs[1].state = "returned" /\ cs[1].rc = 0
              /\ cs[2].stage = "UP" /\ cs[2].state = "returned" /\ cs[2].rc = 0
    /\ \A i \in 1..Len(calls) :
          calls[i].stage = "UP" =>
              /\ i > 1
              /\ calls[i - 1].req = calls[i].req
              /\ calls[i - 1].stage = "PULL"
              /\ calls[i - 1].state = "returned" /\ calls[i - 1].rc = 0

C18_Witness ==
    \E r, q \in Ids :
        /\ Answered(r, 200, "Deployment successful")
        /\ Returned(q) /\ OnlyStatus(q, 500)
        /\ \E i \in 1..Len(calls) :
              calls[i].req = q /\ calls[i].stage = "UP" /\ calls[i].rc = 1

\* C19: the configuration is one of the values read at startup and no step
\* changes it, whatever the outcome of the request handled; every invocation
\* was made in the configured directory on the configured compose file path,
\* and every POST request past the credential check went on to the deploy
\* exactly when its header matched the configured secret.
C19_ConfigUnchanged ==
    /\ [](/\ config \in {Config(s) : s \in Secrets}
          /\ \A i \in 1..Len(calls) :
                /\ calls[i].cwd = config.composeDir
                /\ calls[i].argv[4] = ComposePath(config)
          /\ \A r \in Ids :
                IsPost(r) /\ reqs[r].pc \notin {"auth_check", "killed"} =>
                    (reqs[r].pc = "rejected" \/ 401 \in {reqs[r].sent[n] : n \in 1..Len(reqs[r].sent)})
                        <=> BadCredential(r))
    /\ [][config' = config]_vars

C19_Witness ==
    /\ Len(reqs) = 2
    /\ Answered(1, 500, "Deployment failed: pull access denied")
    /\ Answered(2, 200, "Deployment successful")
    /\ Len(calls) = 3

====
